---- MODULE Spec2Model ----
(***************************************************************************)
(* classification_sample_async.py: the InferReqWrap request wrapper        *)
(* (callback / execute, lines 29-73) run by a caller thread against the    *)
(* inference engine's worker thread, and the batch loop of main()          *)
(* (lines 144-224) that fills output_json.                                 *)
(*                                                                         *)
(* The inference engine is the environment.  What the model takes from it: *)
(*   - infer() blocks the caller until the request has completed and does  *)
(*     not invoke the completion callback;                                 *)
(*   - async_infer() returns at once; when the request completes, the      *)
(*     engine's worker thread invokes the callback once, with a status     *)
(*     code and a userdata value;                                          *)
(*   - threading.Condition: wait() releases the lock, blocks until a       *)
(*     notify() issued while it is blocked, then re-acquires the lock;     *)
(*     notify() with no thread blocked in wait() does nothing.             *)
(***************************************************************************)
EXTENDS Integers, Sequences, FiniteSets, TLC

\* ---------------------------------------------------------------- bounds
MaxIter == 3        \* num_iter ranges over 0..MaxIter
MaxCalls == 3       \* execute() calls made on one wrapper
MaxInputs == 3      \* paths in args.input
MaxBatch == 3       \* args.batch ranges over 1..MaxBatch

\* ------------------------------------------------------- program constants
request_id == 0     \* line 173: the id main() gives the wrapper
main_num_iter == 1  \* line 176: the num_iter main() gives the wrapper

StatusCodes == {0, 1}                 \* 0 is OK, 1 stands for every non-zero status
UserData == {request_id, request_id + 1}  \* the wrapper's id and a foreign one
\* input paths, as sequences of characters: bare names, names under a directory,
\* an absolute path
Paths == {<<"a">>, <<"b">>, <<"d", "/", "a">>, <<"e", "/", "a">>,
          <<"d", "/", "b">>, <<"/", "a">>}

VARIABLES
    \* InferReqWrap fields (lines 30-36)
    num_iter, cur_iter, input,
    \* self.cv: the lock's holder and the threads blocked in wait()
    cv_owner, cv_waiters,
    \* the caller thread inside execute(); exit_code is empty while the process runs
    pc, mode, range_it, exit_code,
    \* the engine: submissions of the request not yet completed
    inflight,
    \* the engine's worker thread inside callback()
    cb_pc, cb_status, cb_userdata,
    \* log.error records of the handler invocation in progress (or the last one)
    cb_errors, exec_errors,
    \* history of the current execute() call
    calls, call_fresh, call_cur_iter0, call_submits, call_callbacks,
    \* the last access to cur_iter or to cv.wait/notify
    last_access,
    \* main(): lines 144-224
    args_input, args_batch, batch_size, start, input_subset, res_rows,
    row, output_json, main_pc

wrap_vars == <<num_iter, cur_iter, input, cv_owner, cv_waiters, pc, mode, range_it,
               exit_code, inflight, cb_pc, cb_status, cb_userdata, cb_errors,
               exec_errors, calls, call_fresh, call_cur_iter0, call_submits,
               call_callbacks, last_access>>
main_vars == <<args_input, args_batch, batch_size, start, input_subset, res_rows,
               row, output_json, main_pc>>
vars == <<wrap_vars, main_vars>>

NoAccess == [obj |-> "none", thread |-> "none", locked |-> FALSE]
Access(obj, thread) == [obj |-> obj, thread |-> thread, locked |-> cv_owner = thread]
InFlight == inflight.sync + inflight.async

\* InferReqWrap.__init__ (lines 30-36) for a given num_iter
WrapInit(n) ==
    /\ num_iter = n
    /\ cur_iter = 0
    /\ input = "unset"
    /\ cv_owner = "none"
    /\ cv_waiters = {}
    /\ pc = "idle"
    /\ mode = "none"
    /\ range_it = 0
    /\ exit_code = {}
    /\ inflight = [sync |-> 0, async |-> 0]
    /\ cb_pc = "idle"
    /\ cb_status = 0
    /\ cb_userdata = request_id
    /\ cb_errors = {}
    /\ exec_errors = {}
    /\ calls = 0
    /\ call_fresh = TRUE
    /\ call_cur_iter0 = 0
    /\ call_submits = 0
    /\ call_callbacks = 0
    /\ last_access = NoAccess

\* main() before the batch loop, not entered in the wrapper's specification
MainIdle ==
    /\ args_input = <<>>
    /\ args_batch = 1
    /\ batch_size = 0
    /\ start = 0
    /\ input_subset = <<>>
    /\ res_rows = 0
    /\ row = 0
    /\ output_json = <<>>
    /\ main_pc = "idle"

Init ==
    /\ \E n \in 0..MaxIter : WrapInit(n)
    /\ MainIdle

\* ------------------------------------------------------------ execute()
\* what every entry to execute() records about the call
BeginCall(m) ==
    /\ pc \in {"idle", "returned"}
    /\ exit_code = {}
    /\ calls < MaxCalls
    /\ mode' = m
    /\ calls' = calls + 1
    /\ call_fresh' = (calls = 0)
    /\ call_cur_iter0' = cur_iter
    /\ call_callbacks' = 0

\* lines 56-60: mode == "async": store the input, first async_infer
execute_async ==
    /\ BeginCall("async")
    /\ input' = "input_data"
    /\ inflight' = [inflight EXCEPT !.async = @ + 1]
    /\ call_submits' = 1
    /\ pc' = "cv_acquire"
    /\ UNCHANGED <<num_iter, cur_iter, cv_owner, cv_waiters, range_it, exit_code,
                   cb_pc, cb_status, cb_userdata, cb_errors, exec_errors, last_access>>
    /\ UNCHANGED main_vars

\* line 61: self.cv.acquire()
execute_cv_acquire ==
    /\ pc = "cv_acquire"
    /\ cv_owner = "none"
    /\ cv_owner' = "caller"
    /\ pc' = "cv_wait"
    /\ UNCHANGED <<num_iter, cur_iter, input, cv_waiters, mode, range_it, exit_code,
                   inflight, cb_pc, cb_status, cb_userdata, cb_errors, exec_errors,
                   calls, call_fresh, call_cur_iter0, call_submits, call_callbacks,
                   last_access>>
    /\ UNCHANGED main_vars

\* line 62: self.cv.wait(): release the lock and block
execute_cv_wait ==
    /\ pc = "cv_wait"
    /\ last_access' = Access("cv", "caller")
    /\ cv_owner' = "none"
    /\ cv_waiters' = cv_waiters \cup {"caller"}
    /\ pc' = "waiting"
    /\ UNCHANGED <<num_iter, cur_iter, input, mode, range_it, exit_code, inflight,
                   cb_pc, cb_status, cb_userdata, cb_errors, exec_errors, calls,
                   call_fresh, call_cur_iter0, call_submits, call_callbacks>>
    /\ UNCHANGED main_vars

\* line 62: wait() returns: notified, the lock re-acquired
execute_cv_wake ==
    /\ pc = "waiting"
    /\ "caller" \notin cv_waiters
    /\ cv_owner = "none"
    /\ cv_owner' = "caller"
    /\ pc' = "cv_release"
    /\ UNCHANGED <<num_iter, cur_iter, input, cv_waiters, mode, range_it, exit_code,
                   inflight, cb_pc, cb_status, cb_userdata, cb_errors, exec_errors,
                   calls, call_fresh, call_cur_iter0, call_submits, call_callbacks,
                   last_access>>
    /\ UNCHANGED main_vars

\* line 63: self.cv.release(); execute returns
execute_cv_release ==
    /\ pc = "cv_release"
    /\ cv_owner' = "none"
    /\ pc' = "returned"
    /\ UNCHANGED <<num_iter, cur_iter, input, cv_waiters, mode, range_it, exit_code,
                   inflight, cb_pc, cb_status, cb_userdata, cb_errors, exec_errors,
                   calls, call_fresh, call_cur_iter0, call_submits, call_callbacks,
                   last_access>>
    /\ UNCHANGED main_vars

\* lines 64-66: mode == "sync": range(self.num_iter) is created
execute_sync ==
    /\ BeginCall("sync")
    /\ range_it' = 0
    /\ call_submits' = 0
    /\ pc' = "sync_for"
    /\ UNCHANGED <<num_iter, cur_iter, input, cv_owner, cv_waiters, exit_code,
                   inflight, cb_pc, cb_status, cb_userdata, cb_errors, exec_errors,
                   last_access>>
    /\ UNCHANGED main_vars

\* mutant of SyncHasNext: the loop runs once too often
SyncHasNextOffByOne == range_it <= num_iter

\* the for statement's test: does range(num_iter) yield another index
SyncHasNext == range_it < num_iter

\* lines 66, 69: the loop assigns the next index to self.cur_iter and calls infer()
sync_submit ==
    /\ pc = "sync_for"
    /\ SyncHasNext
    /\ cur_iter' = range_it
    /\ range_it' = range_it + 1
    /\ last_access' = Access("cur_iter", "caller")
    /\ inflight' = [inflight EXCEPT !.sync = @ + 1]
    /\ call_submits' = call_submits + 1
    /\ pc' = "sync_infer"
    /\ UNCHANGED <<num_iter, input, cv_owner, cv_waiters, mode, exit_code, cb_pc,
                   cb_status, cb_userdata, cb_errors, exec_errors, calls, call_fresh,
                   call_cur_iter0, call_callbacks>>
    /\ UNCHANGED main_vars

\* lines 69-70: the engine completes the request, infer() returns, the log line
sync_complete ==
    /\ pc = "sync_infer"
    /\ inflight.sync > 0
    /\ inflight' = [inflight EXCEPT !.sync = @ - 1]
    /\ last_access' = Access("cur_iter", "caller")
    /\ pc' = "sync_for"
    /\ UNCHANGED <<num_iter, cur_iter, input, cv_owner, cv_waiters, mode, range_it,
                   exit_code, cb_pc, cb_status, cb_userdata, cb_errors, exec_errors,
                   calls, call_fresh, call_cur_iter0, call_submits, call_callbacks>>
    /\ UNCHANGED main_vars

\* line 66: range exhausted, execute returns
sync_return ==
    /\ pc = "sync_for"
    /\ ~SyncHasNext
    /\ pc' = "returned"
    /\ UNCHANGED <<num_iter, cur_iter, input, cv_owner, cv_waiters, mode, range_it,
                   exit_code, inflight, cb_pc, cb_status, cb_userdata, cb_errors,
                   exec_errors, calls, call_fresh, call_cur_iter0, call_submits,
                   call_callbacks, last_access>>
    /\ UNCHANGED main_vars

\* mutant of execute_wrong_mode: the error is logged but sys.exit(1) is missing
execute_wrong_mode_no_exit ==
    /\ BeginCall("other")
    /\ exec_errors' = exec_errors \cup {"wrong inference mode"}
    /\ call_submits' = 0
    /\ pc' = "returned"
    /\ UNCHANGED <<num_iter, cur_iter, input, cv_owner, cv_waiters, range_it,
                   exit_code, inflight, cb_pc, cb_status, cb_userdata, cb_errors,
                   last_access>>
    /\ UNCHANGED main_vars

\* lines 71-73: any other mode: log.error and sys.exit(1)
execute_wrong_mode ==
    /\ BeginCall("other")
    /\ exec_errors' = exec_errors \cup {"wrong inference mode"}
    /\ exit_code' = {1}
    /\ call_submits' = 0
    /\ pc' = "exited"
    /\ UNCHANGED <<num_iter, cur_iter, input, cv_owner, cv_waiters, range_it,
                   inflight, cb_pc, cb_status, cb_userdata, cb_errors, last_access>>
    /\ UNCHANGED main_vars

\* ------------------------------------------------------------ callback()
\* mutant of CallbackErrors: the id check is missing
CallbackErrorsNoIdCheck(statusCode, userdata) ==
    IF statusCode # 0 THEN {"status"} ELSE {}

\* mutant of CallbackErrors: two independent ifs instead of if / elif
CallbackErrorsBothChecks(statusCode, userdata) ==
    (IF userdata # request_id THEN {"id mismatch"} ELSE {})
        \cup (IF statusCode # 0 THEN {"status"} ELSE {})

\* lines 39-42: the if / elif that logs at most one error
CallbackErrors(statusCode, userdata) ==
    IF userdata # request_id THEN {"id mismatch"}
    ELSE IF statusCode # 0 THEN {"status"}
    ELSE {}

\* lines 38-44: the engine completes the asynchronous request and its worker
\* thread enters callback(statusCode, userdata): the error logs, cur_iter += 1
callback(statusCode, userdata) ==
    /\ cb_pc = "idle"
    /\ exit_code = {}
    /\ inflight.async > 0
    /\ inflight' = [inflight EXCEPT !.async = @ - 1]
    /\ cb_status' = statusCode
    /\ cb_userdata' = userdata
    /\ cb_errors' = CallbackErrors(statusCode, userdata)
    /\ cur_iter' = cur_iter + 1
    /\ call_callbacks' = call_callbacks + 1
    /\ last_access' = Access("cur_iter", "callback")
    /\ cb_pc' = "test"
    /\ UNCHANGED <<num_iter, input, cv_owner, cv_waiters, pc, mode, range_it,
                   exit_code, exec_errors, calls, call_fresh, call_cur_iter0,
                   call_submits>>
    /\ UNCHANGED main_vars

\* mutant of CallbackMore: one repetition too many
CallbackMoreOffByOne == cur_iter <= num_iter

\* line 45: more repetitions remain
CallbackMore == cur_iter < num_iter

\* mutant of callback_resubmit: the else is missing, the caller is signalled
\* after every completion
callback_resubmit_and_signal ==
    /\ cb_pc = "test"
    /\ CallbackMore
    /\ last_access' = Access("cur_iter", "callback")
    /\ inflight' = [inflight EXCEPT !.async = @ + 1]
    /\ call_submits' = call_submits + 1
    /\ cb_pc' = "cv_acquire"
    /\ UNCHANGED <<num_iter, cur_iter, input, cv_owner, cv_waiters, pc, mode,
                   range_it, exit_code, cb_status, cb_userdata, cb_errors,
                   exec_errors, calls, call_fresh, call_cur_iter0, call_callbacks>>
    /\ UNCHANGED main_vars

\* lines 45-48: re-submit the stored input on the callback thread; callback returns
callback_resubmit ==
    /\ cb_pc = "test"
    /\ CallbackMore
    /\ last_access' = Access("cur_iter", "callback")
    /\ inflight' = [inflight EXCEPT !.async = @ + 1]
    /\ call_submits' = call_submits + 1
    /\ cb_pc' = "idle"
    /\ UNCHANGED <<num_iter, cur_iter, input, cv_owner, cv_waiters, pc, mode,
                   range_it, exit_code, cb_status, cb_userdata, cb_errors,
                   exec_errors, calls, call_fresh, call_cur_iter0, call_callbacks>>
    /\ UNCHANGED main_vars

\* line 45 (else): the last repetition is done, go on to signal
callback_last ==
    /\ cb_pc = "test"
    /\ ~CallbackMore
    /\ last_access' = Access("cur_iter", "callback")
    /\ cb_pc' = "cv_acquire"
    /\ UNCHANGED <<num_iter, cur_iter, input, cv_owner, cv_waiters, pc, mode,
                   range_it, exit_code, inflight, cb_status, cb_userdata, cb_errors,
                   exec_errors, calls, call_fresh, call_cur_iter0, call_submits,
                   call_callbacks>>
    /\ UNCHANGED main_vars

\* mutant of callback_cv_acquire: notify is reached without taking the lock
callback_cv_acquire_skipped ==
    /\ cb_pc = "cv_acquire"
    /\ cb_pc' = "cv_notify"
    /\ UNCHANGED <<num_iter, cur_iter, input, cv_owner, cv_waiters, pc, mode,
                   range_it, exit_code, inflight, cb_status, cb_userdata, cb_errors,
                   exec_errors, calls, call_fresh, call_cur_iter0, call_submits,
                   call_callbacks, last_access>>
    /\ UNCHANGED main_vars

\* line 51: self.cv.acquire()
callback_cv_acquire ==
    /\ cb_pc = "cv_acquire"
    /\ cv_owner = "none"
    /\ cv_owner' = "callback"
    /\ cb_pc' = "cv_notify"
    /\ UNCHANGED <<num_iter, cur_iter, input, cv_waiters, pc, mode, range_it,
                   exit_code, inflight, cb_status, cb_userdata, cb_errors,
                   exec_errors, calls, call_fresh, call_cur_iter0, call_submits,
                   call_callbacks, last_access>>
    /\ UNCHANGED main_vars

\* line 52: self.cv.notify(): wakes the thread blocked in wait(), if there is one
callback_cv_notify ==
    /\ cb_pc = "cv_notify"
    /\ last_access' = Access("cv", "callback")
    /\ cv_waiters' = {}
    /\ cb_pc' = "cv_release"
    /\ UNCHANGED <<num_iter, cur_iter, input, cv_owner, pc, mode, range_it,
                   exit_code, inflight, cb_status, cb_userdata, cb_errors,
                   exec_errors, calls, call_fresh, call_cur_iter0, call_submits,
                   call_callbacks>>
    /\ UNCHANGED main_vars

\* line 53: self.cv.release(); callback returns
callback_cv_release ==
    /\ cb_pc = "cv_release"
    /\ cv_owner' = "none"
    /\ cb_pc' = "idle"
    /\ UNCHANGED <<num_iter, cur_iter, input, cv_waiters, pc, mode, range_it,
                   exit_code, inflight, cb_status, cb_userdata, cb_errors,
                   exec_errors, calls, call_fresh, call_cur_iter0, call_submits,
                   call_callbacks, last_access>>
    /\ UNCHANGED main_vars

\* the engine's completion of an asynchronous request, with what it reports
EngineCompletes == \E statusCode \in StatusCodes, userdata \in UserData :
    callback(statusCode, userdata)

Next ==
    \/ execute_async
    \/ execute_cv_acquire
    \/ execute_cv_wait
    \/ execute_cv_wake
    \/ execute_cv_release
    \/ execute_sync
    \/ sync_submit
    \/ sync_complete
    \/ sync_return
    \/ execute_wrong_mode
    \/ EngineCompletes
    \/ callback_resubmit
    \/ callback_last
    \/ callback_cv_acquire
    \/ callback_cv_notify
    \/ callback_cv_release

Spec == Init /\ [][Next]_vars

\* ---------------------------------------------------------------- main()
Min(a, b) == IF a < b THEN a ELSE b

\* line 203: p.split('/')[-1]: what follows the last '/', all of p if it has none
RECURSIVE Basename(_)
Basename(p) ==
    IF p = <<>> THEN <<>>
    ELSE IF p[Len(p)] = "/" THEN <<>>
    ELSE Append(Basename(SubSeq(p, 1, Len(p) - 1)), p[Len(p)])

\* mutant of InputSubset: the slice ends one path early
InputSubsetShort(s) ==
    SubSeq(args_input, s + 1, Min(s + args_batch, Len(args_input)) - 1)

\* line 149: args.input[start:start+args.batch]
InputSubset(s) == SubSeq(args_input, s + 1, Min(s + args_batch, Len(args_input)))

\* lines 150, 185: the rows of the output blob.  The engine decides them: one per
\* image handed over (line 150), or one per slot of the network's batch (line 133)
ResRows(subset) == {Len(subset), batch_size}

\* line 203: output_json[key] = value
DictSet(d, key, value) ==
    [k \in DOMAIN d \cup {key} |-> IF k = key THEN value ELSE d[k]]

InputLists == UNION {[1..n -> Paths] : n \in 1..MaxInputs}

\* lines 101-146: the arguments parsed, the network loaded, the loop about to start
InitMain ==
    /\ WrapInit(main_num_iter)
    /\ args_input \in InputLists
    /\ args_batch \in 1..MaxBatch
    /\ batch_size = Min(args_batch, Len(args_input))
    /\ start = 0
    /\ input_subset = <<>>
    /\ res_rows = 0
    /\ row = 0
    /\ output_json = <<>>
    /\ main_pc = "for"

\* lines 147-185: one batch: the slice, the images, a new wrapper with num_iter = 1
\* run in "sync" mode (one blocking infer; the wrapper is again as constructed,
\* cur_iter = 0), the output blob read
main_batch ==
    /\ main_pc = "for"
    /\ start < Len(args_input)
    /\ input_subset' = InputSubset(start)
    /\ \E n \in ResRows(InputSubset(start)) : res_rows' = n
    /\ row' = 0
    /\ main_pc' = "enumerate"
    /\ UNCHANGED <<args_input, args_batch, batch_size, start, output_json>>
    /\ UNCHANGED wrap_vars

\* lines 201-203: the next row of res is stored under its image's base filename;
\* the value stands for the probabilities of image start + row of args.input
main_store_row ==
    /\ main_pc = "enumerate"
    /\ row < res_rows
    /\ row < Len(input_subset)
    /\ output_json' = DictSet(output_json, Basename(input_subset[row + 1]), start + row + 1)
    /\ row' = row + 1
    /\ UNCHANGED <<args_input, args_batch, batch_size, start, input_subset, res_rows,
                   main_pc>>
    /\ UNCHANGED wrap_vars

\* line 203: res has a row with no path in input_subset: IndexError, uncaught
main_index_error ==
    /\ main_pc = "enumerate"
    /\ row < res_rows
    /\ row >= Len(input_subset)
    /\ main_pc' = "IndexError"
    /\ UNCHANGED <<args_input, args_batch, batch_size, start, input_subset, res_rows,
                   row, output_json>>
    /\ UNCHANGED wrap_vars

\* lines 201, 147: res exhausted, range() steps to the next batch
main_next_batch ==
    /\ main_pc = "enumerate"
    /\ row = res_rows
    /\ start' = start + args_batch
    /\ main_pc' = "for"
    /\ UNCHANGED <<args_input, args_batch, batch_size, input_subset, res_rows, row,
                   output_json>>
    /\ UNCHANGED wrap_vars

\* lines 147, 221-225: the loop is over, output_json is written out
main_dump ==
    /\ main_pc = "for"
    /\ start >= Len(args_input)
    /\ main_pc' = "done"
    /\ UNCHANGED <<args_input, args_batch, batch_size, start, input_subset, res_rows,
                   row, output_json>>
    /\ UNCHANGED wrap_vars

NextMain ==
    \/ main_batch
    \/ main_store_row
    \/ main_index_error
    \/ main_next_batch
    \/ main_dump

SpecMain == InitMain /\ [][NextMain]_vars

\* The scheduling the liveness claim assumes: every thread that can take a step
\* eventually takes it, and the engine eventually completes a submitted request.
\* Starting another execute() call is the caller's choice and is not forced.
Fairness ==
    /\ WF_vars(execute_cv_acquire)
    /\ WF_vars(execute_cv_wait)
    /\ WF_vars(execute_cv_wake)
    /\ WF_vars(execute_cv_release)
    /\ WF_vars(sync_submit)
    /\ WF_vars(sync_complete)
    /\ WF_vars(sync_return)
    /\ WF_vars(EngineCompletes)
    /\ WF_vars(callback_resubmit)
    /\ WF_vars(callback_last)
    /\ WF_vars(callback_cv_acquire)
    /\ WF_vars(callback_cv_notify)
    /\ WF_vars(callback_cv_release)

FairSpec == Init /\ [][Next]_vars /\ Fairness

\* ------------------------------------------------------------------ claims
\* steps of the model the claims speak about
CallbackEntered == cb_pc = "idle" /\ cb_pc' = "test"
CallbackBranched == cb_pc = "test" /\ cb_pc' # "test"
CallbackResubmitted ==
    /\ inflight'.async = inflight.async + 1
    /\ cb_pc' = "idle"
CallbackGoesToSignal ==
    /\ inflight' = inflight
    /\ cb_pc' = "cv_acquire"
CallbackContinues == IF cur_iter < num_iter THEN CallbackResubmitted
                     ELSE CallbackGoesToSignal

\* C1: an execute("async") call on a wrapper with num_iter = N has returned only
\* after exactly N callback invocations of that call.
C1_AsyncReturnsAfterExactlyN ==
    (pc = "returned" /\ mode = "async") => call_callbacks = num_iter

\* C2: execute("sync") submits exactly num_iter times, one at a time: while the
\* caller is between iterations nothing is in flight, while it is inside infer()
\* exactly one submission is, and at return num_iter submissions have completed.
C2_SyncSequential ==
    mode = "sync" =>
        /\ call_submits <= num_iter
        /\ pc = "sync_infer" => InFlight = 1
        /\ pc = "sync_for" => InFlight = 0
        /\ pc = "returned" => (call_submits = num_iter /\ InFlight = 0)
        /\ call_callbacks = 0

C2_Witness ==
    /\ mode = "sync"
    /\ pc = "returned"
    /\ num_iter = 2
    /\ call_submits = 2

\* the base filename of a path, read off the path directly
LastSlash(p) == IF \E i \in 1..Len(p) : p[i] = "/"
                THEN CHOOSE i \in 1..Len(p) : p[i] = "/" /\ \A j \in (i + 1)..Len(p) : p[j] # "/"
                ELSE 0
BaseFilename(p) == [i \in 1..(Len(p) - LastSlash(p)) |-> p[LastSlash(p) + i]]
BaseFilenames == {BaseFilename(args_input[j]) : j \in 1..Len(args_input)}
SameBase(j, k) == BaseFilename(args_input[j]) = BaseFilename(args_input[k])

C4_WrongModeExits ==
    mode = "other" =>
        /\ pc = "exited"
        /\ exit_code = {1}
        /\ "wrong inference mode" \in exec_errors
        /\ call_submits = 0
        /\ InFlight = 0
        /\ cur_iter = call_cur_iter0
        /\ ~ENABLED Next

C4_Witness ==
    /\ pc = "exited"
    /\ calls = 2
    /\ cur_iter > 0

\* C5: a callback invoked with a userdata other than the wrapper's id logs the
\* id error, adds exactly one to cur_iter, does not exit, and then re-submits
\* (cur_iter < num_iter) or goes on to signal, as for a matching id.
C5_MismatchStillCounts ==
    /\ [][(CallbackEntered /\ cb_userdata' # request_id) =>
            /\ "id mismatch" \in cb_errors'
            /\ cur_iter' = cur_iter + 1
            /\ exit_code' = {}]_vars
    /\ [][(CallbackBranched /\ cb_userdata # request_id) => CallbackContinues]_vars

C5_Witness ==
    /\ cb_pc = "idle"
    /\ cb_userdata # request_id
    /\ "id mismatch" \in cb_errors
    /\ cur_iter = 1
    /\ num_iter = 2
    /\ inflight.async = 1

\* C6 as stated: every callback invoked with a non-zero status logs the status
\* error, whatever userdata it is invoked with.
C6_StatusAlwaysLogged ==
    cb_status # 0 => "status" \in cb_errors

\* C6 amended: a callback invoked with a non-zero status logs the status error
\* exactly when its userdata matches the wrapper's id (on a mismatch only the id
\* error is logged); either way it adds one to cur_iter, does not exit, and
\* re-submits or goes on to signal.
C6_StatusLoggedIffIdMatches ==
    /\ [][(CallbackEntered /\ cb_status' # 0) =>
            /\ ("status" \in cb_errors') <=> (cb_userdata' = request_id)
            /\ cb_userdata' # request_id => cb_errors' = {"id mismatch"}
            /\ cur_iter' = cur_iter + 1
            /\ exit_code' = {}]_vars
    /\ [][(CallbackBranched /\ cb_status # 0) => CallbackContinues]_vars

C6_Witness ==
    /\ cb_pc = "cv_acquire"
    /\ cb_status # 0
    /\ cb_userdata # request_id
    /\ cb_errors = {"id mismatch"}

\* C7: at most one submission of the request is in flight, in every state of
\* every execute call.
C7_AtMostOneInFlight == InFlight <= 1

C7_Witness ==
    /\ mode = "async"
    /\ call_submits = 2
    /\ cb_pc = "idle"
    /\ InFlight = 1

\* C8 as stated: every access to cur_iter and every wait/notify is made by a
\* thread holding the condition variable's lock.
C8_AllAccessLocked ==
    last_access.obj # "none" => last_access.locked

\* C8 amended: every wait and notify is made by a thread holding the lock;
\* cur_iter is read and written with the lock not held.
C8_OnlySignalLocked ==
    /\ last_access.obj = "cv" => last_access.locked
    /\ last_access.obj = "cur_iter" => ~last_access.locked

C8_Witness ==
    /\ last_access = [obj |-> "cv", thread |-> "callback", locked |-> TRUE]
    /\ pc = "waiting"
    /\ cv_waiters = {}

\* C9 as stated: cur_iter changes only in the callback, and when a call on a
\* fresh wrapper that ran num_iter iterations returns, cur_iter = num_iter.
C9_OnlyCallbackWrites ==
    [][/\ cur_iter' # cur_iter => CallbackEntered
       /\ (pc' = "returned" /\ call_fresh' /\ call_submits' = num_iter)
            => cur_iter' = num_iter]_vars

\* C9 amended: cur_iter is 0 until the first call; it changes only by the
\* callback adding one or by the sync loop assigning its index; when the first
\* call returns, an async call leaves cur_iter at the number of callbacks
\* (num_iter when num_iter >= 1), a sync call at num_iter - 1 (0 when num_iter = 0).
C9_CallbackOrSyncLoopWrites ==
    /\ calls = 0 => cur_iter = 0
    /\ [][/\ cur_iter' # cur_iter =>
                \/ CallbackEntered /\ cur_iter' = cur_iter + 1
                \/ pc = "sync_for" /\ pc' = "sync_infer" /\ cur_iter' = range_it
          /\ (calls' = 0 => cur_iter' = 0)
          /\ (pc' = "returned" /\ call_fresh' /\ mode' = "async") =>
                /\ cur_iter' = call_callbacks'
                /\ num_iter >= 1 => cur_iter' = num_iter
          /\ (pc' = "returned" /\ call_fresh' /\ mode' = "sync") =>
                cur_iter' = IF num_iter >= 1 THEN num_iter - 1 ELSE 0]_vars

C9_Witness ==
    /\ pc = "returned"
    /\ call_fresh
    /\ mode = "sync"
    /\ num_iter = 2
    /\ cur_iter = 1

\* C10: with the engine completing every request, every execute("async") call
\* that has made its first submission eventually returns.
C10_AsyncEventuallyReturns ==
    (mode = "async" /\ pc = "cv_acquire") ~> (pc = "returned")

====
